---- MODULE Spec2Model ----
(***************************************************************************)
(* A model of the clear_ml crate: LinearModel (src/src/models.rs), the     *)
(* gradient of the mean squared error (src/src/loss_functions.rs) and the  *)
(* validators (src/src/util.rs).                                           *)
(*                                                                         *)
(* Numbers.  An f64 is modelled as a fixed-point integer: targets,         *)
(* predictions, intercept, coefficients and gradients count multiples of   *)
(* the tolerance 0.000001 (so OneF is 1.0); features are whole numbers.    *)
(* Every product in the code is then feature * value, which is exact, and  *)
(* the two divisions (2.0 / n_samples and learning_rate = 1/100) round to  *)
(* the nearest multiple, as f64 rounds to the nearest representable value. *)
(* A descent that f64 would carry below the tolerance can stall just above *)
(* it at this resolution and then use up its max_iter passes; the          *)
(* properties below do not depend on which runs converge.                  *)
(*                                                                         *)
(* The call at models.rs:76 is written gradient_mse(&y_hat, y); the only   *)
(* gradient_mse of the crate (loss_functions.rs:54) takes the feature      *)
(* matrix first, and the matrix in scope at the call is _fit's own x.      *)
(***************************************************************************)
EXTENDS Integers, Sequences, FiniteSets, TLC

VARIABLES intercept, coefficients, pc, x, y, y_hat, gradient, iter, ret

vars == <<intercept, coefficients, pc, x, y, y_hat, gradient, iter, ret>>

(* ---------------------------------------------------------------------- *)
(* Bounds and program constants                                           *)
(* ---------------------------------------------------------------------- *)
MaxRows == 2
MaxFeatures == 2

tol == 1
LrDiv == 100
max_iter == 1000

OneF == 1000000 * tol

\* feature matrices: every shape (ragged ones included) filled by a pattern;
\* "ramp" gives the matrices of the tests ([[1], [2]], [[1], [2], [3]])
FeaturePatterns == {"flat", "ramp"}
FeatureAt(pat, i, j) == IF pat = "flat" THEN 5 ELSE i + j - 1
TargetVals == {OneF, 2 * OneF}
InterceptVals == {0, OneF}
CoefVals == {OneF, 2 * OneF}

LossFeatureVals == {1, 10}
LossPredVals == {2 * OneF, 3 * OneF}
LossActualVals == {OneF}

(* ---------------------------------------------------------------------- *)
(* Arithmetic helpers                                                     *)
(* ---------------------------------------------------------------------- *)
Abs(v) == IF v < 0 THEN -v ELSE v

Min(a, b) == IF a < b THEN a ELSE b

\* a / b for b > 0, rounded to the nearest multiple of the unit
RoundDiv(a, b) ==
  LET q == (2 * Abs(a) + b) \div (2 * b)
  IN IF a < 0 THEN -q ELSE q

RECURSIVE SumSeq(_)
SumSeq(s) == IF s = <<>> THEN 0 ELSE s[1] + SumSeq(Tail(s))

SeqsUpTo(S, n) == UNION {[1..k -> S] : k \in 0..n}

Zeros(n) == [j \in 1..n |-> 0]

(* ---------------------------------------------------------------------- *)
(* util.rs                                                                *)
(* ---------------------------------------------------------------------- *)
validate_not_empty(v) ==
  IF Len(v) = 0 THEN "EmptyVector" ELSE "Ok"

validate_same_length(a, b) ==
  IF Len(a) # Len(b) THEN "DimensionMismatch" ELSE "Ok"

\* x.iter().skip(k).try_for_each(|row| validate_same_length(..)): first error
RowsCheck(rows, other, from) ==
  IF \E k \in from..Len(rows) : validate_same_length(rows[k], other) # "Ok"
  THEN "DimensionMismatch" ELSE "Ok"

(* ---------------------------------------------------------------------- *)
(* loss_functions.rs                                                      *)
(* ---------------------------------------------------------------------- *)
\* mutant: the term forgets the feature value
Term_unweighted(n, p, a, x_ij) == RoundDiv(2 * (p - a), n)

\* one term of line 71: 2.0 / n_samples * (y_hat[i] - y[i]) * x_ij
Term(n, p, a, x_ij) == RoundDiv(2 * (p - a), n) * x_ij

RECURSIVE Accumulate(_, _, _, _, _)
Accumulate(g, mx, p, a, i) ==
  IF i > Len(mx) THEN g
  ELSE Accumulate(
         [j \in DOMAIN g |->
            g[j] + (IF j <= Len(mx[i]) THEN Term(Len(mx), p[i], a[i], mx[i][j]) ELSE 0)],
         mx, p, a, i + 1)

\* mutant: the gradient with respect to each prediction, one element per sample
_gradient_mse_per_sample(mx, p, a) ==
  [tag |-> "Ok", val |-> [i \in 1..Len(p) |-> RoundDiv(2 * (p[i] - a[i]), Len(p))]]

_gradient_mse(mx, p, a) ==
  LET n_features == Len(mx[1])
      g0 == Zeros(n_features + 1)
  IN IF \E i \in 1..Len(mx) : Len(mx[i]) > n_features + 1
     THEN [tag |-> "Panic", val |-> <<>>]
     ELSE [tag |-> "Ok",
           val |-> [Accumulate(g0, mx, p, a, 1) EXCEPT
                      ![n_features + 1] = RoundDiv(2 * (SumSeq(p) - SumSeq(a)), Len(mx))]]

gradient_mse(mx, p, a) ==
  IF validate_not_empty(mx) # "Ok" THEN [tag |-> validate_not_empty(mx), val |-> <<>>]
  ELSE IF validate_not_empty(p) # "Ok" THEN [tag |-> validate_not_empty(p), val |-> <<>>]
  ELSE IF validate_not_empty(a) # "Ok" THEN [tag |-> validate_not_empty(a), val |-> <<>>]
  ELSE IF validate_same_length(mx, a) # "Ok"
       THEN [tag |-> validate_same_length(mx, a), val |-> <<>>]
  ELSE IF validate_same_length(p, a) # "Ok"
       THEN [tag |-> validate_same_length(p, a), val |-> <<>>]
  ELSE _gradient_mse(mx, p, a)

(* ---------------------------------------------------------------------- *)
(* models.rs                                                              *)
(* ---------------------------------------------------------------------- *)
\* mutant: the intercept is not added
_predict_no_intercept(icpt, coefs, mx) ==
  [i \in 1..Len(mx) |->
     SumSeq([j \in 1..Min(Len(mx[i]), Len(coefs)) |-> mx[i][j] * coefs[j]])]

\* row.iter().zip(&self.coefficients).map(|(x, a)| x * a).sum() + intercept
_predict(icpt, coefs, mx) ==
  [i \in 1..Len(mx) |->
     SumSeq([j \in 1..Min(Len(mx[i]), Len(coefs)) |-> mx[i][j] * coefs[j]]) + icpt]

predict(icpt, coefs, mx) ==
  IF validate_not_empty(mx) # "Ok" THEN [tag |-> validate_not_empty(mx), val |-> <<>>]
  ELSE IF RowsCheck(mx, coefs, 1) # "Ok" THEN [tag |-> RowsCheck(mx, coefs, 1), val |-> <<>>]
  ELSE [tag |-> "Ok", val |-> _predict(icpt, coefs, mx)]

\* mutant: the lengths of x and y are compared before y is checked for emptiness
fit_validate_swapped(mx, t) ==
  IF validate_not_empty(mx) # "Ok" THEN validate_not_empty(mx)
  ELSE IF validate_same_length(mx, t) # "Ok" THEN validate_same_length(mx, t)
  ELSE IF validate_not_empty(t) # "Ok" THEN validate_not_empty(t)
  ELSE RowsCheck(mx, mx[1], 2)

\* the checks of fit, lines 49-58, in order
fit_validate(mx, t) ==
  IF validate_not_empty(mx) # "Ok" THEN validate_not_empty(mx)
  ELSE IF validate_not_empty(t) # "Ok" THEN validate_not_empty(t)
  ELSE IF validate_same_length(mx, t) # "Ok" THEN validate_same_length(mx, t)
  ELSE RowsCheck(mx, mx[1], 2)

\* mutant: the inclusive range 0..=max_iter
loop_done_inclusive(i) == i > max_iter

\* `for _ in 0..max_iter`: the range is spent after max_iter passes
loop_done(i) == i >= max_iter

\* mutant: the absolute value is forgotten
converged_no_abs(g) == \A j \in 1..Len(g) : g[j] < tol

\* gradient.iter().all(|g| g.abs() < tol)
converged(g) == \A j \in 1..Len(g) : Abs(g[j]) < tol

\* mutant: one coefficient per gradient element, the intercept's included
update_nozip(coefs, g) ==
  [j \in 1..Len(g) |-> (IF j <= Len(coefs) THEN coefs[j] ELSE 0) - RoundDiv(g[j], LrDiv)]

\* mutant: the step is added, not subtracted
update_plus(coefs, g) ==
  [j \in 1..Min(Len(coefs), Len(g)) |-> coefs[j] + RoundDiv(g[j], LrDiv)]

\* coefficients.iter().zip(&gradient).map(|(a, g)| a - learning_rate * g)
update(coefs, g) ==
  [j \in 1..Min(Len(coefs), Len(g)) |-> coefs[j] - RoundDiv(g[j], LrDiv)]

NoRet == [op |-> "none", res |-> "none", val |-> <<>>]

Shapes == SeqsUpTo(0..MaxFeatures, MaxRows)
Matrices ==
  {[i \in 1..Len(sh) |-> [j \in 1..sh[i] |-> FeatureAt(pat, i, j)]] :
     sh \in Shapes, pat \in FeaturePatterns}
Targets == SeqsUpTo(TargetVals, MaxRows)

Init ==
  /\ intercept = 0
  /\ coefficients = <<>>
  /\ pc = "idle"
  /\ x = <<>>
  /\ y = <<>>
  /\ y_hat = <<>>
  /\ gradient = <<>>
  /\ iter = 0
  /\ ret = NoRet

\* LinearModel::new()
New ==
  /\ pc = "idle"
  /\ intercept' = 0
  /\ coefficients' = <<>>
  /\ UNCHANGED <<pc, x, y, y_hat, gradient, iter, ret>>

\* the caller assigns the public fields (models.rs:205-206)
SetFields ==
  /\ pc = "idle"
  /\ \E i \in InterceptVals, c \in SeqsUpTo(CoefVals, MaxFeatures) :
       /\ intercept' = i
       /\ coefficients' = c
  /\ UNCHANGED <<pc, x, y, y_hat, gradient, iter, ret>>

\* mutant: the coefficients are reset before the arguments are validated
Fit_reset_first ==
  /\ pc = "idle"
  /\ \E mx \in Matrices, t \in Targets :
       /\ x' = mx
       /\ y' = t
       /\ coefficients' = Zeros(IF mx = <<>> THEN 0 ELSE Len(mx[1]))
       /\ IF fit_validate(mx, t) # "Ok"
          THEN /\ ret' = [op |-> "fit", res |-> fit_validate(mx, t), val |-> <<>>]
               /\ pc' = "ret"
          ELSE /\ pc' = "loop"
               /\ UNCHANGED ret
  /\ UNCHANGED <<intercept, y_hat, gradient, iter>>

\* fit, lines 48-60, and the first statement of _fit, line 72
Fit ==
  /\ pc = "idle"
  /\ \E mx \in Matrices, t \in Targets :
       /\ x' = mx
       /\ y' = t
       /\ IF fit_validate(mx, t) # "Ok"
          THEN /\ ret' = [op |-> "fit", res |-> fit_validate(mx, t), val |-> <<>>]
               /\ pc' = "ret"
               /\ UNCHANGED coefficients
          ELSE /\ coefficients' = Zeros(Len(mx[1]))
               /\ pc' = "loop"
               /\ UNCHANGED ret
  /\ UNCHANGED <<intercept, y_hat, gradient, iter>>

\* mutant: the pass also moves the intercept by the last gradient element
FitLoop_updates_intercept ==
  /\ pc = "loop"
  /\ IF loop_done(iter)
     THEN /\ pc' = "ret"
          /\ ret' = [op |-> "fit", res |-> "Ok", val |-> <<>>]
          /\ UNCHANGED <<intercept, coefficients, y_hat, gradient, iter>>
     ELSE LET p == predict(intercept, coefficients, x)
              g == gradient_mse(x, p.val, y)
          IN IF p.tag # "Ok" \/ g.tag # "Ok"
             THEN /\ pc' = "panic"
                  /\ ret' = [op |-> "unwrap", res |-> "panic", val |-> <<>>]
                  /\ UNCHANGED <<intercept, coefficients, y_hat, gradient, iter>>
             ELSE /\ y_hat' = p.val
                  /\ gradient' = g.val
                  /\ IF converged(g.val)
                     THEN /\ pc' = "ret"
                          /\ ret' = [op |-> "fit", res |-> "Ok", val |-> <<>>]
                          /\ UNCHANGED <<intercept, coefficients, iter>>
                     ELSE /\ coefficients' = update(coefficients, g.val)
                          /\ intercept' = intercept - RoundDiv(g.val[Len(g.val)], LrDiv)
                          /\ iter' = iter + 1
                          /\ UNCHANGED <<pc, ret>>
  /\ UNCHANGED <<x, y>>

\* one pass of `for _ in 0..max_iter`, lines 74-92; when the loop is left,
\* `self` at line 94 and Ok(..) at line 60
FitLoop ==
  /\ pc = "loop"
  /\ IF loop_done(iter)
     THEN /\ pc' = "ret"
          /\ ret' = [op |-> "fit", res |-> "Ok", val |-> <<>>]
          /\ UNCHANGED <<coefficients, y_hat, gradient, iter>>
     ELSE LET p == predict(intercept, coefficients, x)
              g == gradient_mse(x, p.val, y)
          IN IF p.tag # "Ok"
             THEN /\ pc' = "panic"
                  /\ ret' = [op |-> "predict", res |-> p.tag, val |-> <<>>]
                  /\ UNCHANGED <<coefficients, y_hat, gradient, iter>>
             ELSE IF g.tag # "Ok"
             THEN /\ pc' = "panic"
                  /\ ret' = [op |-> "gradient_mse", res |-> g.tag, val |-> <<>>]
                  /\ y_hat' = p.val
                  /\ UNCHANGED <<coefficients, gradient, iter>>
             ELSE /\ y_hat' = p.val
                  /\ gradient' = g.val
                  /\ IF converged(g.val)
                     THEN /\ pc' = "ret"
                          /\ ret' = [op |-> "fit", res |-> "Ok", val |-> <<>>]
                          /\ UNCHANGED <<coefficients, iter>>
                     ELSE /\ coefficients' = update(coefficients, g.val)
                          /\ iter' = iter + 1
                          /\ UNCHANGED <<pc, ret>>
  /\ UNCHANGED <<intercept, x, y>>

\* predict, lines 111-119
Predict ==
  /\ pc = "idle"
  /\ \E mx \in Matrices :
       /\ x' = mx
       /\ ret' = [op |-> "predict",
                  res |-> predict(intercept, coefficients, mx).tag,
                  val |-> predict(intercept, coefficients, mx).val]
  /\ pc' = "ret"
  /\ UNCHANGED <<intercept, coefficients, y, y_hat, gradient, iter>>

\* the call is over: the borrowed arguments and the locals go out of scope
Return ==
  /\ pc = "ret"
  /\ pc' = "idle"
  /\ x' = <<>> /\ y' = <<>> /\ y_hat' = <<>> /\ gradient' = <<>>
  /\ iter' = 0
  /\ ret' = NoRet
  /\ UNCHANGED <<intercept, coefficients>>

Next == New \/ SetFields \/ Fit \/ FitLoop \/ Predict \/ Return

Spec == Init /\ [][Next]_vars

(* ---------------------------------------------------------------------- *)
(* gradient_mse called on its own                                         *)
(* ---------------------------------------------------------------------- *)
LossMatrices == SeqsUpTo(SeqsUpTo(LossFeatureVals, MaxFeatures), MaxRows)

InitLoss ==
  /\ intercept = 0
  /\ coefficients = <<>>
  /\ pc = "loss"
  /\ x \in LossMatrices
  /\ y_hat \in SeqsUpTo(LossPredVals, MaxRows)
  /\ y \in SeqsUpTo(LossActualVals, MaxRows)
  /\ gradient = <<>>
  /\ iter = 0
  /\ ret = NoRet

\* gradient_mse, lines 54-62
GradientMse ==
  /\ pc = "loss"
  /\ pc' = "ret"
  /\ ret' = [op |-> "gradient_mse", res |-> gradient_mse(x, y_hat, y).tag, val |-> <<>>]
  /\ gradient' = gradient_mse(x, y_hat, y).val
  /\ UNCHANGED <<intercept, coefficients, x, y, y_hat, iter>>

NextLoss == GradientMse

SpecLoss == InitLoss /\ [][NextLoss]_vars

(* ---------------------------------------------------------------------- *)
(* Properties                                                             *)
(* ---------------------------------------------------------------------- *)
Uniform(mx, n) == \A k \in 1..Len(mx) : Len(mx[k]) = n

\* intercept + sum_j(coefs_j * row_j) for row i of mx
ExpPred(icpt, coefs, mx, i) ==
  icpt + SumSeq([j \in 1..Len(coefs) |-> coefs[j] * mx[i][j]])

\* sum over the samples i of (2/n * (p_i - a_i)) * x_ij
ExpGrad(mx, p, a, j) ==
  SumSeq([i \in 1..Len(mx) |-> RoundDiv(2 * (p[i] - a[i]), Len(mx)) * mx[i][j]])

\* 2/n * (sum(p) - sum(a))
ExpGradIcpt(mx, p, a) == RoundDiv(2 * (SumSeq(p) - SumSeq(a)), Len(mx))

\* the predictions and the gradient at the parameters of the current state
CurPred == [i \in 1..Len(x) |-> ExpPred(intercept, coefficients, x, i)]

CurGrad ==
  [j \in 1..(Len(x[1]) + 1) |->
     IF j <= Len(x[1]) THEN ExpGrad(x, CurPred, y, j) ELSE ExpGradIcpt(x, CurPred, y)]

AllBelowTol(g) == \A j \in DOMAIN g : -tol < g[j] /\ g[j] < tol

FitReturned == pc = "ret" /\ ret.op = "fit"
PredictReturned == pc = "ret" /\ ret.op = "predict"
LossReturned == pc = "ret" /\ ret.op = "gradient_mse"
FitFailsStep == pc = "idle" /\ pc' = "ret" /\ ret'.op = "fit" /\ ret'.res # "Ok"
FitEntersStep == pc = "idle" /\ pc' = "loop"
PredictStep == pc = "idle" /\ pc' = "ret" /\ ret'.op = "predict"

\* C1: fit(x, y) returns EmptyVector when x or y is empty (before any length
\* comparison), otherwise DimensionMismatch when x.len # y.len or a row differs
\* in length from the first row, otherwise it passes validation; predict(x)
\* returns EmptyVector when x is empty, otherwise DimensionMismatch when a
\* row's length differs from coefficients.len, otherwise Ok.
C1_ValidationOutcome ==
  /\ FitReturned =>
       ret.res = IF x = <<>> \/ y = <<>> THEN "EmptyVector"
                 ELSE IF Len(x) # Len(y) \/ ~Uniform(x, Len(x[1])) THEN "DimensionMismatch"
                 ELSE "Ok"
  /\ pc = "loop" =>
       x # <<>> /\ y # <<>> /\ Len(x) = Len(y) /\ Uniform(x, Len(x[1]))
  /\ PredictReturned =>
       ret.res = IF x = <<>> THEN "EmptyVector"
                 ELSE IF ~Uniform(x, Len(coefficients)) THEN "DimensionMismatch"
                 ELSE "Ok"

\* fit with a non-empty x and an empty y has returned EmptyVector
C1_Witness ==
  FitReturned /\ x # <<>> /\ x[1] # <<>> /\ y = <<>> /\ ret.res = "EmptyVector"

\* C2: whenever fit returns an error, intercept and coefficients are exactly
\* what they were before the call.
C2_FailedFitKeepsModel ==
  [][FitFailsStep => intercept' = intercept /\ coefficients' = coefficients]_vars

\* fit has failed on a model whose coefficients a reset would have changed
C2_Witness ==
  /\ FitReturned /\ ret.res = "DimensionMismatch"
  /\ x # <<>> /\ coefficients # Zeros(Len(x[1]))
  /\ intercept # 0

\* C3: for a non-empty x whose rows all have length coefficients.len, predict
\* returns one entry per row, entry i being intercept + sum_j coefficients[j] *
\* x[i][j], and leaves intercept and coefficients unchanged.
C3_PredictValue ==
  /\ [](PredictReturned /\ x # <<>> /\ Uniform(x, Len(coefficients)) =>
          /\ ret.res = "Ok"
          /\ Len(ret.val) = Len(x)
          /\ \A i \in 1..Len(x) : ret.val[i] = ExpPred(intercept, coefficients, x, i))
  /\ [][PredictStep => intercept' = intercept /\ coefficients' = coefficients]_vars

\* predict has answered for two rows with two distinct coefficients and an intercept
C3_Witness ==
  /\ PredictReturned /\ ret.res = "Ok"
  /\ Len(x) = 2 /\ x[1] # x[2]
  /\ Len(coefficients) = 2 /\ coefficients[1] # coefficients[2]
  /\ intercept # 0

C7_InterceptUntouched ==
  [][/\ (FitFailsStep \/ FitEntersStep \/ pc = "loop") => intercept' = intercept
     /\ FitEntersStep => coefficients' = Zeros(Len(x'[1]))]_vars

\* fit has succeeded with updates on a model whose intercept the caller set
C7_Witness ==
  /\ FitReturned /\ ret.res = "Ok" /\ iter > 0
  /\ intercept # 0
  /\ \E j \in 1..Len(coefficients) : coefficients[j] # 0

====
